---- MODULE Spec2Model ----
(***************************************************************************)
(* Smart Traffic System: the prediction-and-collection pipeline of         *)
(* src/app.py.                                                             *)
(*                                                                         *)
(* One process at a time runs app.py.  Its main thread imports the module  *)
(* (constructing the global predictor, which loads the artifact files),    *)
(* initialises the database, starts the collector thread, trains the model *)
(* and then serves requests.  The collector thread loops over ticks: it    *)
(* samples the sensors, asks the predictor for a flow per record, inserts  *)
(* the rows and commits.  The artifact files and the database survive the  *)
(* process; everything else is lost when the process is restarted, which   *)
(* may happen at any time and any number of times.                         *)
(*                                                                         *)
(* An estimator object (the RandomForestRegressor or the StandardScaler)   *)
(* is an integer: 0 is the unfitted object of __init__, g > 0 the object   *)
(* fitted by training number g, and -g the object while the fit of         *)
(* training g is rewriting it in place.                                    *)
(***************************************************************************)
EXTENDS Integers, Sequences, FiniteSets, TLC

\* ---------------------------------------------------------------- bounds
MaxTrain == 2      \* train_model calls over the whole run
MaxTicks == 1      \* collector ticks over the whole run

Threads == {"main", "collector"}

\* The sensors a tick samples, in the order of IoTSimulator.sensors (a sample of
\* the twelve).
SensorIds == <<"delhi_cp", "mumbai_bandra">>

\* Feature tuples (hour, day_of_week, weather) the callers pass to predict (a
\* sample of 0..23 x 0..6 x 0..2).
Features == {<<8, 1, 0>>, <<17, 4, 1>>}

NoArgs == <<>>
None == "None"

\* What a predict call gave: nothing yet, the returned integer (with the
\* estimator and the scaler it was computed from), or the exception it raised.  NotFittedError is sklearn's error for an object never fitted;
\* RaceError stands for whatever an object raises when it is read while a fit
\* is rewriting it.
NoRet == [k |-> "none"]
Returned(v, m, sc) == [k |-> "value", v |-> v, model |-> m, scaler |-> sc]
Raised(e) == [k |-> "error", e |-> e]
\* What a read handler has fetched: nothing while none is running.
NoResp == [k |-> "none"]
NotFittedError == "NotFittedError"
RaceError == "RaceError"

VARIABLES
    model,         \* predictor.model
    scaler,        \* predictor.scaler
    is_trained,    \* predictor.is_trained
    files,         \* models/traffic_model.pkl, models/scaler.pkl, models/model_info.json
    db,            \* committed rows of traffic_data
    pc,            \* position of each thread
    tid,           \* number of the training a thread's train_model call is running
    cont,          \* where a thread's train_model call returns to
    args,          \* arguments of a thread's predict call
    scaled,        \* features_scaled of a thread's predict call: the scaler it used
    pret,          \* what a thread's predict call returned or raised
    saveRet,       \* what a thread's save_model call returned
    ioFailed,      \* whether an I/O operation of a thread's save_model call failed
    sawUntrained,  \* whether a thread's predict call found is_trained false
    idx,           \* index of the record store_traffic_data is working on
    pending,       \* rows inserted but not yet committed by store_traffic_data
    tick,          \* collector ticks begun so far (the timestamp of a tick's records)
    trainCount,    \* trainings begun so far (numbers the trainings)
    loadRet,       \* what load_model returned in __init__
    hasTable,      \* whether table traffic_data exists in traffic_data.db
    sensor_data,   \* what generate_sensor_data returned to the tick in progress
    rnd,           \* clock and random draws of that generate_sensor_data call
    current_time,  \* datetime.now() read by store_traffic_data for the record at idx
    weather,       \* weather codes store_traffic_data has drawn in this call
    slept,         \* seconds of the collector's last time.sleep (0: none yet)
    resp           \* rows a read handler of the main thread has fetched

vars == <<model, scaler, is_trained, files, db, pc, tid, cont, args, scaled, pret,
          saveRet, ioFailed, sawUntrained, idx, pending, tick, trainCount,
          loadRet, hasTable, sensor_data, rnd, current_time, weather, slept, resp>>

predictorVars == <<model, scaler, is_trained>>
predictLocals == <<args, scaled, pret, sawUntrained>>
trainLocals == <<tid, cont, saveRet, ioFailed>>
collectorVars == <<idx, pending, tick, sensor_data, rnd, current_time, weather, slept>>
storeVars == <<files, db, hasTable>>

\* ---------------------------------------------------------------- files
Absent == [k |-> "absent"]
Truncated == [k |-> "truncated"]

\* pickle.dump(obj, f): the bytes hold the object.
Pickle(obj) == [k |-> "pickle", obj |-> obj]

\* json.dump(model_info, f): trained_at is the time of the save, which is the
\* number of the training that called save_model.
Json(trained, at) == [k |-> "json", is_trained |-> trained, trained_at |-> at]

\* os.path.exists
Exists(file) == file.k # "absent"

\* pickle.load / json.load raise on a file that was truncated on open and never
\* written in full.
Loads(file, kind) == file.k = kind

Unpickle(file) == file.obj

NoFiles == [model_path |-> Absent, scaler_path |-> Absent, model_info_path |-> Absent]

\* ---------------------------------------------------------------- load_model
\* a load_model that marks the instance untrained when a pickle does not load
LoadModelResets(m, s, tr, f) ==
    IF Exists(f.model_path) /\ Exists(f.scaler_path)
    THEN IF ~Loads(f.model_path, "pickle")
         THEN [model |-> m, scaler |-> s, is_trained |-> FALSE, ret |-> FALSE]
         ELSE IF ~Loads(f.scaler_path, "pickle")
         THEN [model |-> Unpickle(f.model_path), scaler |-> s, is_trained |-> FALSE,
               ret |-> FALSE]
         ELSE IF Exists(f.model_info_path) /\ ~Loads(f.model_info_path, "json")
         THEN [model |-> Unpickle(f.model_path), scaler |-> Unpickle(f.scaler_path),
               is_trained |-> TRUE, ret |-> FALSE]
         ELSE [model |-> Unpickle(f.model_path), scaler |-> Unpickle(f.scaler_path),
               is_trained |-> TRUE, ret |-> TRUE]
    ELSE [model |-> m, scaler |-> s, is_trained |-> tr, ret |-> FALSE]

\* load_model forgetting to assign the unpickled scaler
LoadModelNoScaler(m, s, tr, f) ==
    IF Exists(f.model_path) /\ Exists(f.scaler_path)
    THEN IF ~Loads(f.model_path, "pickle") \/ ~Loads(f.scaler_path, "pickle")
         THEN [model |-> m, scaler |-> s, is_trained |-> tr, ret |-> FALSE]
         ELSE [model |-> Unpickle(f.model_path), scaler |-> s, is_trained |-> TRUE,
               ret |-> TRUE]
    ELSE [model |-> m, scaler |-> s, is_trained |-> tr, ret |-> FALSE]

\* The result of load_model on an instance holding (m, s, tr): the fields it
\* leaves and the value it returns.  An exception of pickle.load or json.load is
\* caught after the assignments made before it.
LoadModel(m, s, tr, f) ==
    IF Exists(f.model_path) /\ Exists(f.scaler_path)
    THEN IF ~Loads(f.model_path, "pickle")
         THEN [model |-> m, scaler |-> s, is_trained |-> tr, ret |-> FALSE]
         ELSE IF ~Loads(f.scaler_path, "pickle")
         THEN [model |-> Unpickle(f.model_path), scaler |-> s, is_trained |-> tr,
               ret |-> FALSE]
         ELSE IF Exists(f.model_info_path) /\ ~Loads(f.model_info_path, "json")
         THEN [model |-> Unpickle(f.model_path), scaler |-> Unpickle(f.scaler_path),
               is_trained |-> TRUE, ret |-> FALSE]
         ELSE [model |-> Unpickle(f.model_path), scaler |-> Unpickle(f.scaler_path),
               is_trained |-> TRUE, ret |-> TRUE]
    ELSE [model |-> m, scaler |-> s, is_trained |-> tr, ret |-> FALSE]

\* ---------------------------------------------------------------- predict
\* A number for an estimator object, different for every object.
Code(v) == IF v < 0 THEN 2 * (0 - v) + 1 ELSE 2 * v

\* self.model.predict(features_scaled)[0], in tenths.  The regressor is opaque
\* here: its output depends on the estimator, on the scaler that scaled the
\* features and on the features, and may be any real number.
Estimate(m, sc, a) ==
    ((Code(m) * Code(m) + Code(sc) + a[1] + a[2] + a[3]) % 3) * 12 - 13

\* int(prediction): truncation toward zero.
IntTrunc(x10) == IF x10 >= 0 THEN x10 \div 10 ELSE 0 - ((0 - x10) \div 10)

Max(a, b) == IF a >= b THEN a ELSE b

\* int(prediction) without the clamp
PredictValueNoClamp(m, sc, a) == IntTrunc(Estimate(m, sc, a))

\* max(0, int(prediction))
PredictValue(m, sc, a) == Max(0, IntTrunc(Estimate(m, sc, a)))

\* ---------------------------------------------------------------- IoTSimulator
\* IoTSimulator.sensors, in the order of the dict; city is the part of the id
\* that the tests `"mumbai" in sensor_id` ... look for.
Sensors ==
    << [id |-> "delhi_cp",       city |-> "delhi",   congestion_type |-> "high"],
       [id |-> "delhi_iffco",    city |-> "delhi",   congestion_type |-> "high"],
       [id |-> "delhi_lajpat",   city |-> "delhi",   congestion_type |-> "medium"],
       [id |-> "delhi_dwarka",   city |-> "delhi",   congestion_type |-> "low"],
       [id |-> "blr_silk",       city |-> "blr",     congestion_type |-> "high"],
       [id |-> "blr_electronic", city |-> "blr",     congestion_type |-> "high"],
       [id |-> "blr_jayanagar",  city |-> "blr",     congestion_type |-> "medium"],
       [id |-> "blr_hebbal",     city |-> "blr",     congestion_type |-> "low"],
       [id |-> "mumbai_bandra",  city |-> "mumbai",  congestion_type |-> "high"],
       [id |-> "mumbai_andheri", city |-> "mumbai",  congestion_type |-> "medium"],
       [id |-> "chennai_adyar",  city |-> "chennai", congestion_type |-> "medium"],
       [id |-> "chennai_omr",    city |-> "chennai", congestion_type |-> "low"] >>

AllSensorIds == [i \in 1..Len(Sensors) |-> Sensors[i].id]

SensorOf(id) == CHOOSE sn \in {Sensors[i] : i \in 1..Len(Sensors)} : sn.id = id

\* The hours of the clock, and the draws of one pass of the loop body of
\* generate_sensor_data: base and speed say which value each random.randint
\* gives within its range (0 the lowest, 1 the middle, 2 the highest), jitter is
\* random.randint(-15, 15), and tie says which way round(avg_speed, 1) falls
\* when the float is half-way between two tenths.
Hours == 0..23
Draws == [base : 0..2, jitter : {-15, 0, 15}, speed : 0..2, tie : 0..1]
NoDraws == [hour |-> -1, d |-> [base |-> 0, jitter |-> 0, speed |-> 0, tie |-> 0]]

\* What datetime.now() can give store_traffic_data, its hour and its
\* weekday() (a sample of Hours and of Monday..Sunday that holds both ends of
\* each); and what random.randint(0, 2) can give it.
Clocks == {[hour |-> 0, weekday |-> 0], [hour |-> 23, weekday |-> 6]}
NoClock == [hour |-> -1, weekday |-> -1]
WeatherCodes == 0..2

\* The clock and the draws of the collector's ticks (a sample of Hours and Draws).
TickHours == {8}
TickDraws == {[base |-> 1, jitter |-> 0, speed |-> 1, tie |-> 0]}
\* The clock store_traffic_data reads and the weather it draws in those ticks
\* (a sample of Clocks and WeatherCodes).
TickClocks == {[hour |-> 8, weekday |-> 1]}
TickWeather == {0}

\* random.randint(lo, hi) for draw k
RandInt(lo, hi, k) == IF k = 0 THEN lo ELSE IF k = 1 THEN (lo + hi) \div 2 ELSE hi

\* base_vehicles with no rush-hour addition
BaseVehiclesNoRush(ct, hour, k) ==
    LET base == IF ct = "high" THEN 60 ELSE IF ct = "medium" THEN 35 ELSE 20
    IN  IF 12 <= hour /\ hour <= 15
        THEN IF ct = "high" THEN base + RandInt(40, 80, k)
             ELSE IF ct = "medium" THEN base + RandInt(20, 50, k)
             ELSE base + RandInt(10, 30, k)
        ELSE IF 22 <= hour \/ hour <= 5
        THEN IF ct = "high" THEN RandInt(15, 35, k)
             ELSE IF ct = "medium" THEN RandInt(8, 20, k)
             ELSE RandInt(3, 12, k)
        ELSE base

\* base_vehicles before the city multiplier
BaseVehicles(ct, hour, k) ==
    LET base == IF ct = "high" THEN 60 ELSE IF ct = "medium" THEN 35 ELSE 20
    IN  IF (7 <= hour /\ hour <= 11) \/ (16 <= hour /\ hour <= 21)
        THEN IF ct = "high" THEN base + RandInt(100, 180, k)
             ELSE IF ct = "medium" THEN base + RandInt(60, 120, k)
             ELSE base + RandInt(30, 80, k)
        ELSE IF 12 <= hour /\ hour <= 15
        THEN IF ct = "high" THEN base + RandInt(40, 80, k)
             ELSE IF ct = "medium" THEN base + RandInt(20, 50, k)
             ELSE base + RandInt(10, 30, k)
        ELSE IF 22 <= hour \/ hour <= 5
        THEN IF ct = "high" THEN RandInt(15, 35, k)
             ELSE IF ct = "medium" THEN RandInt(8, 20, k)
             ELSE RandInt(3, 12, k)
        ELSE base

\* int(base_vehicles * 1.4): the double product falls just below the integer
\* for these bases, so int() gives one less than the exact (14 * b) \div 10
Int14Low == {45, 85, 90, 165, 170, 175, 180}

\* int(base_vehicles * 1.4), * 1.2, * 1.1 by city (bases 0..324)
CityMultiplier(city, b) ==
    IF city = "mumbai"
    THEN (14 * b) \div 10 - (IF b \in Int14Low THEN 1 ELSE 0)
    ELSE IF city = "delhi" \/ city = "blr" THEN (12 * b) \div 10
    ELSE IF city = "chennai" THEN (11 * b) \div 10
    ELSE b

\* vehicle_count before the clamp of the record
RawCount(sn, hour, d) ==
    CityMultiplier(sn.city, BaseVehicles(sn.congestion_type, hour, d.base)) + d.jitter

\* avg_speed without the max(floor, ...)
AvgSpeedNoFloor(ct, vc, k) ==
    IF ct = "high" THEN 1800 - 15 * vc + 100 * RandInt(-10, 5, k)
    ELSE IF ct = "medium" THEN 2800 - 18 * vc + 100 * RandInt(-8, 8, k)
    ELSE 4000 - 22 * vc + 100 * RandInt(-5, 10, k)

\* avg_speed before rounding, in hundredths of km/h
AvgSpeed(ct, vc, k) ==
    IF ct = "high" THEN Max(200, 1800 - 15 * vc + 100 * RandInt(-10, 5, k))
    ELSE IF ct = "medium" THEN Max(500, 2800 - 18 * vc + 100 * RandInt(-8, 8, k))
    ELSE Max(800, 4000 - 22 * vc + 100 * RandInt(-5, 10, k))

\* round(x, 1) of x >= 0 given in hundredths: the result in tenths
Round1(x100, tie) ==
    LET q == x100 \div 10
        r == x100 % 10
    IN  IF r < 5 THEN q ELSE IF r > 5 THEN q + 1 ELSE q + tie

\* a label with no "Medium"
CongestionLevelTwoWay(vc) == IF vc > 80 THEN "High" ELSE "Low"

\* "High" if vehicle_count > 80 else "Medium" if vehicle_count > 40 else "Low"
CongestionLevel(vc) == IF vc > 80 THEN "High" ELSE IF vc > 40 THEN "Medium" ELSE "Low"

\* The record generate_sensor_data appends for a sensor at tick n (avg_speed in
\* tenths of km/h)
Reading(sn, n, hour, d) ==
    LET vehicle_count == RawCount(sn, hour, d)
    IN  [sensor_id |-> sn.id,
         timestamp |-> [n |-> n, hour |-> hour],
         vehicle_count |-> Max(0, vehicle_count),
         avg_speed |-> Round1(AvgSpeed(sn.congestion_type, vehicle_count, d.speed), d.tie),
         congestion_type |-> sn.congestion_type,
         congestion_level |-> CongestionLevel(vehicle_count)]

\* generate_sensor_data leaving out the last sensor
GenerateSensorDataSkipsLast(ids, n, hour, d) ==
    [i \in 1..(Len(ids) - 1) |-> Reading(SensorOf(ids[i]), n, hour, d)]

\* generate_sensor_data() over the sensors ids
GenerateSensorData(ids, n, hour, d) ==
    [i \in 1..Len(ids) |-> Reading(SensorOf(ids[i]), n, hour, d)]

\* ---------------------------------------------------------------- rows
\* The row store_traffic_data inserts for a record.
Row(record, flow) ==
    [sensor_id |-> record.sensor_id,
     timestamp |-> record.timestamp,
     vehicle_count |-> record.vehicle_count,
     avg_speed |-> record.avg_speed,
     congestion_level |-> record.congestion_level,
     predicted_flow |-> flow]

\* ---------------------------------------------------------------- Init
Init ==
    /\ model = 0
    /\ scaler = 0
    /\ is_trained = FALSE
    /\ files = NoFiles
    /\ db = <<>>
    /\ hasTable = FALSE
    /\ pc = [t \in Threads |-> IF t = "main" THEN "boot" ELSE "idle"]
    /\ tid = [t \in Threads |-> 0]
    /\ cont = [t \in Threads |-> None]
    /\ args = [t \in Threads |-> NoArgs]
    /\ scaled = [t \in Threads |-> 0]
    /\ pret = [t \in Threads |-> NoRet]
    /\ saveRet = [t \in Threads |-> FALSE]
    /\ ioFailed = [t \in Threads |-> FALSE]
    /\ sawUntrained = [t \in Threads |-> FALSE]
    /\ idx = 0
    /\ pending = <<>>
    /\ tick = 0
    /\ trainCount = 0
    /\ loadRet = FALSE
    /\ sensor_data = <<>>
    /\ rnd = NoDraws
    /\ current_time = NoClock
    /\ weather = <<>>
    /\ slept = 0
    /\ resp = NoResp

Goto(t, label) == pc' = [pc EXCEPT ![t] = label]

\* ---------------------------------------------------------------- bootstrap
\* import of app.py: predictor = TrafficPredictor(), whose __init__ sets the
\* unfitted estimator and scaler and calls load_model.
Boot ==
    /\ pc["main"] = "boot"
    /\ LET r == LoadModel(0, 0, FALSE, files)
       IN  /\ model' = r.model
           /\ scaler' = r.scaler
           /\ is_trained' = r.is_trained
           /\ loadRet' = r.ret
    /\ Goto("main", "init_db")
    /\ UNCHANGED <<storeVars, predictLocals, trainLocals, collectorVars, trainCount, resp>>

\* an init_db that creates nothing
InitDbNoTable ==
    /\ pc["main"] = "init_db"
    /\ Goto("main", "startup")
    /\ UNCHANGED <<predictorVars, storeVars, predictLocals, trainLocals, collectorVars,
                   trainCount, loadRet, resp>>

\* init_db(): CREATE TABLE IF NOT EXISTS
InitDb ==
    /\ pc["main"] = "init_db"
    /\ hasTable' = TRUE
    /\ Goto("main", "startup")
    /\ UNCHANGED <<predictorVars, files, db, predictLocals, trainLocals, collectorVars,
                   trainCount, loadRet, resp>>

\* __main__ of app.py: data_thread.start(), then predictor.train_model() on the
\* main thread
StartThread ==
    /\ pc["main"] = "startup"
    /\ pc' = [pc EXCEPT !["main"] = "tm_begin", !["collector"] = "c_tick"]
    /\ cont' = [cont EXCEPT !["main"] = "serve"]
    /\ UNCHANGED <<predictorVars, storeVars, predictLocals, tid, saveRet, ioFailed,
                   collectorVars, trainCount, loadRet, resp>>

\* start_application of run.py, which imports app and so starts no collector
\* thread: predictor.train_model() on the main thread
RunTrain ==
    /\ pc["main"] = "startup"
    /\ Goto("main", "tm_begin")
    /\ cont' = [cont EXCEPT !["main"] = "serve"]
    /\ UNCHANGED <<predictorVars, storeVars, predictLocals, tid, saveRet, ioFailed,
                   collectorVars, trainCount, loadRet, resp>>

\* ---------------------------------------------------------------- train_model
\* What a read of estimator object v by another call does: a fitted object is
\* used; an object that a fit is rewriting raises or is used as it is.
MayRaise(v) == v < 0

\* train_model raising: in predict the exception leaves predict; in the startup
\* call of __main__ it ends the process.
TrainRaises(t) ==
    IF cont[t] = "p_transform"
    THEN /\ Goto(t, "p_ret")
         /\ pret' = [pret EXCEPT ![t] = Raised(RaceError)]
    ELSE /\ Goto(t, "crashed")
         /\ UNCHANGED pret

\* generate_training_data, train_test_split, and the start of
\* self.scaler.fit_transform(X_train), which refits the scaler in place.
TrainBegin(t) ==
    /\ pc[t] = "tm_begin"
    /\ trainCount < MaxTrain
    /\ trainCount' = trainCount + 1
    /\ tid' = [tid EXCEPT ![t] = trainCount + 1]
    /\ scaler' = 0 - (trainCount + 1)
    /\ Goto(t, "tm_scaler_done")
    /\ UNCHANGED <<model, is_trained, storeVars, predictLocals, cont, saveRet, ioFailed,
                   collectorVars, loadRet, resp>>

\* self.scaler.fit_transform(X_train) returns
ScalerFitted(t) ==
    /\ pc[t] = "tm_scaler_done"
    /\ scaler' = tid[t]
    /\ Goto(t, "tm_model_fit")
    /\ UNCHANGED <<model, is_trained, storeVars, predictLocals, trainLocals,
                   collectorVars, trainCount, loadRet, resp>>

\* X_test_scaled = self.scaler.transform(X_test), then the start of
\* self.model.fit(X_train_scaled, y_train), which refits the estimator in place
ModelFitBegin(t) ==
    /\ pc[t] = "tm_model_fit"
    /\ \/ /\ model' = 0 - tid[t]
          /\ Goto(t, "tm_model_done")
          /\ UNCHANGED pret
       \/ /\ MayRaise(scaler)
          /\ TrainRaises(t)
          /\ UNCHANGED model
    /\ UNCHANGED <<scaler, is_trained, storeVars, args, scaled, sawUntrained,
                   trainLocals, collectorVars, trainCount, loadRet, resp>>

\* self.model.fit returns
ModelFitted(t) ==
    /\ pc[t] = "tm_model_done"
    /\ model' = tid[t]
    /\ Goto(t, "tm_set_trained")
    /\ UNCHANGED <<scaler, is_trained, storeVars, predictLocals, trainLocals,
                   collectorVars, trainCount, loadRet, resp>>

\* self.is_trained = True; score = self.model.score(X_test_scaled, y_test);
\* then save_model is entered
SetTrained(t) ==
    /\ pc[t] = "tm_set_trained"
    /\ is_trained' = TRUE
    /\ \/ /\ Goto(t, "sv_model")
          /\ UNCHANGED pret
       \/ /\ MayRaise(model)
          /\ TrainRaises(t)
    /\ UNCHANGED <<model, scaler, storeVars, args, scaled, sawUntrained,
                   trainLocals, collectorVars, trainCount, loadRet, resp>>

\* return score
TrainReturn(t) ==
    /\ pc[t] = "tm_ret"
    /\ Goto(t, cont[t])
    /\ tid' = [tid EXCEPT ![t] = 0]
    /\ cont' = [cont EXCEPT ![t] = None]
    /\ saveRet' = [saveRet EXCEPT ![t] = FALSE]
    /\ ioFailed' = [ioFailed EXCEPT ![t] = FALSE]
    /\ UNCHANGED <<predictorVars, storeVars, predictLocals, collectorVars, trainCount,
                   loadRet, resp>>

\* ---------------------------------------------------------------- save_model
\* save_model returning True from its except block too
SaveResultAlwaysTrue(failed) == TRUE

\* What save_model returns: True at the end of the try block, False from the
\* except block.
SaveResult(failed) == ~failed

\* except Exception: print, return False; train_model goes on to return score
SaveFails(t) ==
    /\ ioFailed' = [ioFailed EXCEPT ![t] = TRUE]
    /\ saveRet' = [saveRet EXCEPT ![t] = SaveResult(TRUE)]
    /\ Goto(t, "tm_ret")

SaveGoes(t, label) ==
    /\ Goto(t, label)
    /\ UNCHANGED <<ioFailed, saveRet>>

\* with open(path, mode) as f: dump(content, f).  open fails and leaves the
\* file as it was; or open creates or empties the file and the dump fails,
\* leaving it truncated; or the content is written.
WriteFile(t, path, content, label) ==
    \/ /\ files' = [files EXCEPT ![path] = content]
       /\ SaveGoes(t, label)
    \/ /\ files' = [files EXCEPT ![path] = Truncated]
       /\ SaveFails(t)
    \/ /\ UNCHANGED files
       /\ SaveFails(t)

\* with open(self.model_path, "wb") as f: pickle.dump(self.model, f)
SaveModelFile(t) ==
    /\ pc[t] = "sv_model"
    /\ WriteFile(t, "model_path", Pickle(model), "sv_scaler")
    /\ UNCHANGED <<predictorVars, db, hasTable, predictLocals, tid, cont, collectorVars,
                   trainCount, loadRet, resp>>

\* with open(self.scaler_path, "wb") as f: pickle.dump(self.scaler, f)
SaveScalerFile(t) ==
    /\ pc[t] = "sv_scaler"
    /\ WriteFile(t, "scaler_path", Pickle(scaler), "sv_info")
    /\ UNCHANGED <<predictorVars, db, hasTable, predictLocals, tid, cont, collectorVars,
                   trainCount, loadRet, resp>>

\* model_info = {...}; with open(self.model_info_path, "w") as f:
\* json.dump(model_info, f, indent=2); return True
SaveInfoFile(t) ==
    /\ pc[t] = "sv_info"
    /\ \/ /\ files' = [files EXCEPT !.model_info_path = Json(is_trained, tid[t])]
          /\ saveRet' = [saveRet EXCEPT ![t] = SaveResult(FALSE)]
          /\ Goto(t, "tm_ret")
          /\ UNCHANGED ioFailed
       \/ /\ files' = [files EXCEPT !.model_info_path = Truncated]
          /\ SaveFails(t)
       \/ /\ UNCHANGED files
          /\ SaveFails(t)
    /\ UNCHANGED <<predictorVars, db, hasTable, predictLocals, tid, cont, collectorVars,
                   trainCount, loadRet, resp>>

\* ---------------------------------------------------------------- predict
\* predict without the train-on-first-use check
PredictEnterNoTrain(t, a) ==
    /\ args' = [args EXCEPT ![t] = a]
    /\ pret' = [pret EXCEPT ![t] = NoRet]
    /\ scaled' = [scaled EXCEPT ![t] = 0]
    /\ sawUntrained' = [sawUntrained EXCEPT ![t] = ~is_trained]
    /\ Goto(t, "p_transform")
    /\ UNCHANGED cont

\* predict training whatever is_trained says
PredictEnterAlwaysTrain(t, a) ==
    /\ args' = [args EXCEPT ![t] = a]
    /\ pret' = [pret EXCEPT ![t] = NoRet]
    /\ scaled' = [scaled EXCEPT ![t] = 0]
    /\ sawUntrained' = [sawUntrained EXCEPT ![t] = ~is_trained]
    /\ Goto(t, "tm_begin")
    /\ cont' = [cont EXCEPT ![t] = "p_transform"]

\* predict(hour, day_of_week, weather) is entered with features a:
\* if not self.is_trained: self.train_model()
PredictEnter(t, a) ==
    /\ args' = [args EXCEPT ![t] = a]
    /\ pret' = [pret EXCEPT ![t] = NoRet]
    /\ scaled' = [scaled EXCEPT ![t] = 0]
    /\ sawUntrained' = [sawUntrained EXCEPT ![t] = ~is_trained]
    /\ IF is_trained
       THEN /\ Goto(t, "p_transform")
            /\ UNCHANGED cont
       ELSE /\ Goto(t, "tm_begin")
            /\ cont' = [cont EXCEPT ![t] = "p_transform"]

\* features_scaled = self.scaler.transform(features)
PredictTransform(t) ==
    /\ pc[t] = "p_transform"
    /\ \/ /\ scaler # 0
          /\ scaled' = [scaled EXCEPT ![t] = scaler]
          /\ Goto(t, "p_score")
          /\ UNCHANGED pret
       \/ /\ scaler = 0
          /\ pret' = [pret EXCEPT ![t] = Raised(NotFittedError)]
          /\ Goto(t, "p_ret")
          /\ UNCHANGED scaled
       \/ /\ MayRaise(scaler)
          /\ pret' = [pret EXCEPT ![t] = Raised(RaceError)]
          /\ Goto(t, "p_ret")
          /\ UNCHANGED scaled
    /\ UNCHANGED <<predictorVars, storeVars, args, sawUntrained, trainLocals,
                   collectorVars, trainCount, loadRet, resp>>

\* prediction = self.model.predict(features_scaled)[0]
\* return max(0, int(prediction))
PredictScore(t) ==
    /\ pc[t] = "p_score"
    /\ \/ /\ model # 0
          /\ pret' = [pret EXCEPT ![t] = Returned(PredictValue(model, scaled[t], args[t]),
                                                     model, scaled[t])]
       \/ /\ model = 0
          /\ pret' = [pret EXCEPT ![t] = Raised(NotFittedError)]
       \/ /\ MayRaise(model)
          /\ pret' = [pret EXCEPT ![t] = Raised(RaceError)]
    /\ Goto(t, "p_ret")
    /\ UNCHANGED <<predictorVars, storeVars, args, scaled, sawUntrained,
                   trainLocals, collectorVars, trainCount, loadRet, resp>>

\* the locals of a predict call are gone when it has returned
ClearPredict(t) ==
    /\ args' = [args EXCEPT ![t] = NoArgs]
    /\ scaled' = [scaled EXCEPT ![t] = 0]
    /\ sawUntrained' = [sawUntrained EXCEPT ![t] = FALSE]
    /\ pret' = [pret EXCEPT ![t] = NoRet]

\* app.run(): a request handler (get_current_traffic, get_predictions) calls
\* predictor.predict
Request ==
    /\ pc["main"] = "serve"
    /\ \E a \in Features : PredictEnter("main", a)
    /\ UNCHANGED <<predictorVars, storeVars, tid, saveRet, ioFailed, collectorVars,
                   trainCount, loadRet, resp>>

\* predict returns to the request handler; an exception becomes the handler's
\* error response
RequestReturn ==
    /\ pc["main"] = "p_ret"
    /\ Goto("main", "serve")
    /\ ClearPredict("main")
    /\ UNCHANGED <<predictorVars, storeVars, trainLocals, collectorVars, trainCount,
                   loadRet, resp>>

\* ---------------------------------------------------------------- read handlers
\* SELECT * FROM traffic_data ORDER BY timestamp DESC LIMIT 100
Reverse(rows) == [i \in 1..Len(rows) |-> rows[Len(rows) + 1 - i]]
Latest(rows) == SubSeq(Reverse(rows), 1, IF Len(rows) < 100 THEN Len(rows) ELSE 100)

RECURSIVE SumVehicles(_)
SumVehicles(rows) ==
    IF rows = <<>> THEN 0 ELSE Head(rows).vehicle_count + SumVehicles(Tail(rows))

\* SELECT hour, AVG(vehicle_count) ... GROUP BY hour: per hour present, the
\* sum and the number of the rows the average is taken over
HourlyTraffic(rows) ==
    LET hours == {rows[i].timestamp.hour : i \in 1..Len(rows)}
    IN  [h \in hours |->
            LET sel == SelectSeq(rows, LAMBDA r : r.timestamp.hour = h)
            IN  [sum |-> SumVehicles(sel), count |-> Len(sel)]]

\* SELECT congestion_level, COUNT(*) ... GROUP BY congestion_level
CongestionDistribution(rows) ==
    LET levels == {rows[i].congestion_level : i \in 1..Len(rows)}
    IN  [lv \in levels |-> Len(SelectSeq(rows, LAMBDA r : r.congestion_level = lv))]

\* a get_historical_data that deletes the rows it has fetched
GetHistoricalDataDeletes ==
    /\ pc["main"] = "serve"
    /\ hasTable
    /\ resp' = [k |-> "history", rows |-> Latest(db)]
    /\ db' = <<>>
    /\ Goto("main", "r_ret")
    /\ UNCHANGED <<predictorVars, files, hasTable, predictLocals, trainLocals,
                   collectorVars, trainCount, loadRet>>

\* get_historical_data(): connect, SELECT, fetchall, close
GetHistoricalData ==
    /\ pc["main"] = "serve"
    /\ hasTable
    /\ resp' = [k |-> "history", rows |-> Latest(db)]
    /\ Goto("main", "r_ret")
    /\ UNCHANGED <<predictorVars, storeVars, predictLocals, trainLocals, collectorVars,
                   trainCount, loadRet>>

\* get_analytics(): connect, the two SELECTs, close
GetAnalytics ==
    /\ pc["main"] = "serve"
    /\ hasTable
    /\ resp' = [k |-> "analytics", hourly_traffic |-> HourlyTraffic(db),
                congestion_distribution |-> CongestionDistribution(db)]
    /\ Goto("main", "r_ret")
    /\ UNCHANGED <<predictorVars, storeVars, predictLocals, trainLocals, collectorVars,
                   trainCount, loadRet>>

\* return jsonify(...)
ReadReturn ==
    /\ pc["main"] = "r_ret"
    /\ resp' = NoResp
    /\ Goto("main", "serve")
    /\ UNCHANGED <<predictorVars, storeVars, predictLocals, trainLocals, collectorVars,
                   trainCount, loadRet>>

\* ---------------------------------------------------------------- collector
\* time.sleep(30) at the end of the try block, and in the except block
SleepSeconds == 30
ErrorSleepSeconds == 30

\* data_collection_job: sensor_data = iot_simulator.generate_sensor_data();
\* store_traffic_data opens its connection
CollectorTick ==
    /\ pc["collector"] = "c_tick"
    /\ tick < MaxTicks
    /\ tick' = tick + 1
    /\ \E h \in TickHours, d \in TickDraws :
           /\ sensor_data' = GenerateSensorData(SensorIds, tick + 1, h, d)
           /\ rnd' = [hour |-> h, d |-> d]
    /\ idx' = 1
    /\ pending' = <<>>
    /\ Goto("collector", "c_predict")
    /\ UNCHANGED <<predictorVars, storeVars, predictLocals, trainLocals, current_time,
                   weather, slept, trainCount, loadRet, resp>>

\* a store_traffic_data that passes the hour of the record's timestamp
CollectorPredictFromReading(clocks, codes) ==
    /\ pc["collector"] = "c_predict"
    /\ \E now \in clocks, w \in codes :
           /\ current_time' = now
           /\ weather' = Append(weather, w)
           /\ PredictEnter("collector", <<sensor_data[idx].timestamp.hour, now.weekday, w>>)
    /\ UNCHANGED <<predictorVars, storeVars, tid, saveRet, ioFailed, idx, pending,
                   tick, sensor_data, rnd, slept, trainCount, loadRet, resp>>

\* store_traffic_data, for the record at idx: current_time = datetime.now();
\* predictor.predict(current_time.hour, current_time.weekday(),
\* random.randint(0, 2)), the clock read being one of clocks and the weather
\* drawn one of codes
CollectorPredictWith(clocks, codes) ==
    /\ pc["collector"] = "c_predict"
    /\ \E now \in clocks, w \in codes :
           /\ current_time' = now
           /\ weather' = Append(weather, w)
           /\ PredictEnter("collector", <<now.hour, now.weekday, w>>)
    /\ UNCHANGED <<predictorVars, storeVars, tid, saveRet, ioFailed, idx, pending,
                   tick, sensor_data, rnd, slept, trainCount, loadRet, resp>>

\* the predict call of a tick of Spec
CollectorPredict == CollectorPredictWith(TickClocks, TickWeather)

\* the predict call with any clock and any weather
CollectorPredictAny == CollectorPredictWith(Clocks, WeatherCodes)

\* store_traffic_data is left by an exception: its connection is dropped with
\* the transaction uncommitted, and data_collection_job catches the exception
StoreRaises ==
    /\ pending' = <<>>
    /\ idx' = 0
    /\ sensor_data' = <<>>
    /\ rnd' = NoDraws
    /\ current_time' = NoClock
    /\ weather' = <<>>
    /\ Goto("collector", "c_except")

\* predict returns to store_traffic_data, which executes
\* INSERT INTO traffic_data (..., predicted_flow) for the record; predict or
\* the INSERT (no table, database locked, disk full) may raise
CollectorInsert ==
    /\ pc["collector"] = "p_ret"
    /\ \/ /\ pret["collector"].k = "value"
          /\ hasTable
          /\ pending' = Append(pending, Row(sensor_data[idx], pret["collector"].v))
          /\ current_time' = NoClock
          /\ UNCHANGED <<sensor_data, rnd, weather>>
          /\ IF idx < Len(sensor_data)
             THEN /\ idx' = idx + 1
                  /\ Goto("collector", "c_predict")
             ELSE /\ idx' = 0
                  /\ Goto("collector", "c_commit")
       \/ StoreRaises
    /\ ClearPredict("collector")
    /\ UNCHANGED <<predictorVars, storeVars, trainLocals, tick, slept, trainCount,
                   loadRet, resp>>

\* a commit that keeps only the first row of the transaction
CollectorCommitPartial ==
    /\ pc["collector"] = "c_commit"
    /\ db' = db \o SubSeq(pending, 1, 1)
    /\ pending' = <<>>
    /\ sensor_data' = <<>>
    /\ rnd' = NoDraws
    /\ current_time' = NoClock
    /\ weather' = <<>>
    /\ Goto("collector", "c_sleep")
    /\ UNCHANGED <<predictorVars, files, hasTable, predictLocals, trainLocals, idx,
                   tick, slept, trainCount, loadRet, resp>>

\* conn.commit(); conn.close(); the commit may raise
CollectorCommit ==
    /\ pc["collector"] = "c_commit"
    /\ \/ /\ db' = db \o pending
          /\ pending' = <<>>
          /\ sensor_data' = <<>>
          /\ rnd' = NoDraws
          /\ current_time' = NoClock
          /\ weather' = <<>>
          /\ Goto("collector", "c_sleep")
          /\ UNCHANGED idx
       \/ /\ StoreRaises
          /\ UNCHANGED db
    /\ UNCHANGED <<predictorVars, files, hasTable, predictLocals, trainLocals, tick,
                   slept, trainCount, loadRet, resp>>

\* print(...); time.sleep(30) in the try block, then the next pass of while True
CollectorSleep ==
    /\ pc["collector"] = "c_sleep"
    /\ slept' = SleepSeconds
    /\ Goto("collector", "c_tick")
    /\ UNCHANGED <<predictorVars, storeVars, predictLocals, trainLocals, idx, pending,
                   tick, sensor_data, rnd, current_time, weather, trainCount, loadRet,
                   resp>>

\* an except block that leaves the loop
CollectorExceptStops ==
    /\ pc["collector"] = "c_except"
    /\ slept' = ErrorSleepSeconds
    /\ Goto("collector", "c_done")
    /\ UNCHANGED <<predictorVars, storeVars, predictLocals, trainLocals, idx, pending,
                   tick, sensor_data, rnd, current_time, weather, trainCount, loadRet,
                   resp>>

\* except Exception: print(...); time.sleep(30), then the next pass of while True
CollectorExcept ==
    /\ pc["collector"] = "c_except"
    /\ slept' = ErrorSleepSeconds
    /\ Goto("collector", "c_tick")
    /\ UNCHANGED <<predictorVars, storeVars, predictLocals, trainLocals, idx, pending,
                   tick, sensor_data, rnd, current_time, weather, trainCount, loadRet,
                   resp>>

\* ---------------------------------------------------------------- simulator
\* iot_simulator.generate_sensor_data() called once, at any hour with any draws
Simulate ==
    /\ sensor_data = <<>>
    /\ \E h \in Hours, d \in Draws :
           /\ sensor_data' = GenerateSensorData(AllSensorIds, 0, h, d)
           /\ rnd' = [hour |-> h, d |-> d]
    /\ UNCHANGED <<predictorVars, storeVars, pc, predictLocals, trainLocals, idx,
                   pending, tick, current_time, weather, slept, trainCount, loadRet,
                   resp>>

\* ---------------------------------------------------------------- process
\* The process ends (killed, or its main thread died) and app.py is started
\* again: memory is lost, the artifact files and the database are kept, and an
\* uncommitted transaction is rolled back.
Restart ==
    /\ pc["main"] # "boot"
    /\ model' = 0
    /\ scaler' = 0
    /\ is_trained' = FALSE
    /\ loadRet' = FALSE
    /\ pc' = [t \in Threads |-> IF t = "main" THEN "boot" ELSE "idle"]
    /\ tid' = [t \in Threads |-> 0]
    /\ cont' = [t \in Threads |-> None]
    /\ args' = [t \in Threads |-> NoArgs]
    /\ scaled' = [t \in Threads |-> 0]
    /\ pret' = [t \in Threads |-> NoRet]
    /\ saveRet' = [t \in Threads |-> FALSE]
    /\ ioFailed' = [t \in Threads |-> FALSE]
    /\ sawUntrained' = [t \in Threads |-> FALSE]
    /\ idx' = 0
    /\ pending' = <<>>
    /\ sensor_data' = <<>>
    /\ rnd' = NoDraws
    /\ current_time' = NoClock
    /\ weather' = <<>>
    /\ slept' = 0
    /\ resp' = NoResp
    /\ UNCHANGED <<storeVars, tick, trainCount>>

\* A thread runs only while the process lives.
Alive == pc["main"] # "crashed"

TrainStep(t) ==
    \/ TrainBegin(t)
    \/ ScalerFitted(t)
    \/ ModelFitBegin(t)
    \/ ModelFitted(t)
    \/ SetTrained(t)
    \/ TrainReturn(t)

SaveStep(t) ==
    \/ SaveModelFile(t)
    \/ SaveScalerFile(t)
    \/ SaveInfoFile(t)

PredictStep(t) ==
    \/ PredictTransform(t)
    \/ PredictScore(t)

Next ==
    \/ Boot
    \/ InitDb
    \/ StartThread
    \/ Request
    \/ RequestReturn
    \/ GetHistoricalData
    \/ GetAnalytics
    \/ ReadReturn
    \/ \E t \in Threads : Alive /\ TrainStep(t)
    \/ \E t \in Threads : Alive /\ SaveStep(t)
    \/ \E t \in Threads : Alive /\ PredictStep(t)
    \/ Alive /\ CollectorTick
    \/ Alive /\ CollectorPredict
    \/ Alive /\ CollectorInsert
    \/ Alive /\ CollectorCommit
    \/ Alive /\ CollectorSleep
    \/ Alive /\ CollectorExcept
    \/ Restart

\* python app.py
Spec == Init /\ [][Next]_vars

NextRun ==
    \/ Boot
    \/ InitDb
    \/ RunTrain
    \/ Request
    \/ RequestReturn
    \/ GetHistoricalData
    \/ GetAnalytics
    \/ ReadReturn
    \/ Alive /\ TrainStep("main")
    \/ Alive /\ SaveStep("main")
    \/ Alive /\ PredictStep("main")
    \/ Restart

\* One life of the python app.py process, from a first start to its end
NextOnce ==
    \/ Boot
    \/ InitDb
    \/ StartThread
    \/ Request
    \/ RequestReturn
    \/ GetHistoricalData
    \/ GetAnalytics
    \/ ReadReturn
    \/ \E t \in Threads : Alive /\ TrainStep(t)
    \/ \E t \in Threads : Alive /\ SaveStep(t)
    \/ \E t \in Threads : Alive /\ PredictStep(t)
    \/ Alive /\ CollectorTick
    \/ Alive /\ CollectorPredict
    \/ Alive /\ CollectorInsert
    \/ Alive /\ CollectorCommit
    \/ Alive /\ CollectorSleep
    \/ Alive /\ CollectorExcept

\* that life with a collector thread whose time.sleep always returns
FairSpec ==
    /\ Init /\ [][NextOnce]_vars
    /\ WF_vars(Alive /\ (CollectorSleep \/ CollectorExcept))

\* python run.py
SpecRun == Init /\ [][NextRun]_vars

\* ---------------------------------------------------------------- TrafficPredictor
\* The methods of a TrafficPredictor called directly, in any order, by a
\* single-threaded script that has imported app (as run.py, setup.py and
\* benchmark_model.py do): between two calls the main thread is at "startup"
\* (nothing called yet) or at "serve".
IdlePcs == {"startup", "serve"}

\* predictor.save_model()
CallSave ==
    /\ pc["main"] \in IdlePcs
    /\ cont' = [cont EXCEPT !["main"] = pc["main"]]
    /\ Goto("main", "sv_model")
    /\ UNCHANGED <<predictorVars, storeVars, predictLocals, tid, saveRet, ioFailed,
                   collectorVars, trainCount, loadRet, resp>>

\* predictor.load_model()
CallLoad ==
    /\ pc["main"] \in IdlePcs
    /\ LET r == LoadModel(model, scaler, is_trained, files)
       IN  /\ model' = r.model
           /\ scaler' = r.scaler
           /\ is_trained' = r.is_trained
           /\ loadRet' = r.ret
    /\ cont' = [cont EXCEPT !["main"] = pc["main"]]
    /\ Goto("main", "ld_ret")
    /\ UNCHANGED <<storeVars, predictLocals, tid, saveRet, ioFailed, collectorVars,
                   trainCount, resp>>

\* load_model returns to the script
LoadReturn ==
    /\ pc["main"] = "ld_ret"
    /\ Goto("main", cont["main"])
    /\ cont' = [cont EXCEPT !["main"] = None]
    /\ UNCHANGED <<predictorVars, storeVars, predictLocals, tid, saveRet, ioFailed,
                   collectorVars, trainCount, loadRet, resp>>

\* predictor.train_model() after the first call
CallTrain ==
    /\ pc["main"] = "serve"
    /\ trainCount < MaxTrain
    /\ Goto("main", "tm_begin")
    /\ cont' = [cont EXCEPT !["main"] = "serve"]
    /\ UNCHANGED <<predictorVars, storeVars, predictLocals, tid, saveRet, ioFailed,
                   collectorVars, trainCount, loadRet, resp>>

\* predictor.predict(...) as the first call
CallPredict ==
    /\ pc["main"] = "startup"
    /\ \E a \in Features : PredictEnter("main", a)
    /\ UNCHANGED <<predictorVars, storeVars, tid, saveRet, ioFailed, collectorVars,
                   trainCount, loadRet, resp>>

NextApi ==
    \/ Boot
    \/ InitDb
    \/ RunTrain
    \/ CallTrain
    \/ CallSave
    \/ CallLoad
    \/ LoadReturn
    \/ CallPredict
    \/ Request
    \/ RequestReturn
    \/ Alive /\ TrainStep("main")
    \/ Alive /\ SaveStep("main")
    \/ Alive /\ PredictStep("main")
    \/ Restart

\* a script calling the methods of the predictor in any order
SpecApi == Init /\ [][NextApi]_vars

\* One life of app.py with nobody calling its routes, the collector reading
\* any clock and drawing any weather
NextStore ==
    \/ Boot
    \/ InitDb
    \/ StartThread
    \/ \E t \in Threads : Alive /\ TrainStep(t)
    \/ \E t \in Threads : Alive /\ SaveStep(t)
    \/ \E t \in Threads : Alive /\ PredictStep(t)
    \/ Alive /\ CollectorTick
    \/ Alive /\ CollectorPredictAny
    \/ Alive /\ CollectorInsert
    \/ Alive /\ CollectorCommit
    \/ Alive /\ CollectorSleep
    \/ Alive /\ CollectorExcept

SpecStore == Init /\ [][NextStore]_vars

\* The simulator on its own
NextSim == Simulate

SpecSim == Init /\ [][NextSim]_vars

\* ---------------------------------------------------------------- claims
PredictPcs == {"p_transform", "p_score", "p_ret"}
SavePcs == {"sv_model", "sv_scaler", "sv_info"}
Other(t) == IF t = "main" THEN "collector" ELSE "main"

\* C1: a predict call that found the model Untrained has run train_model before
\* it transforms and scores its features: from then on the model is Trained and
\* the estimator and the scaler have been fitted, the call never raises the
\* error of an unfitted object, and when it returns a prediction the model is
\* Trained.
C1_AutoTrain ==
    \A t \in Threads :
        (sawUntrained[t] /\ pc[t] \in PredictPcs) =>
            /\ pret[t] # Raised(NotFittedError)
            /\ (pc[t] # "p_ret" \/ pret[t].k = "value") =>
                   (is_trained /\ model # 0 /\ scaler # 0)

C1_Witness ==
    \E t \in Threads : sawUntrained[t] /\ pc[t] = "p_ret" /\ pret[t].k = "value"

\* C2: training runs once: two callers are never both inside train_model.
C2_TrainOnce == ~(tid["main"] # 0 /\ tid["collector"] # 0)

\* C3: a predict call that returns while another thread is inside train_model
\* computed its value from the scaler and the estimator of one completed
\* training.
C3_NoTornPredict ==
    \A t \in Threads :
        (pc[t] = "p_ret" /\ pret[t].k = "value" /\ tid[Other(t)] # 0) =>
            (pret[t].model = pret[t].scaler /\ pret[t].model > 0)

\* C4: after construction the model is Trained exactly when load_model
\* returned True; when it returned False the model is Untrained.
C4_LoadMatchesState == pc["main"] = "init_db" => (is_trained <=> loadRet)

\* The three files hold the estimator, the scaler and the metadata of one
\* training.
ArtifactOf(g) ==
    [model_path |-> Pickle(g), scaler_path |-> Pickle(g),
     model_info_path |-> Json(TRUE, g)]

Complete(f) == \E g \in 1..MaxTrain : f = ArtifactOf(g)

\* C5: when save_model has returned, True or False, the files hold the whole
\* artifact of one training, the previous one (or nothing when there was
\* none) or the new one: never a part of one, and never the estimator of one
\* training with the scaler or the metadata of another.
C5_AtomicSave ==
    \A t \in Threads : pc[t] = "tm_ret" => (files = NoFiles \/ Complete(files))

StepOf(t) == pc'[t] # pc[t] /\ pc'["main"] # "boot"

\* C6: save_model returns False when a write failed and True when all three
\* succeeded; it never raises (each of its steps goes to the next write or
\* to its return); and none of its steps, failed or not, changes the
\* estimator, the scaler or the trained flag.
C6_SaveResult ==
    /\ [](\A t \in Threads : pc[t] = "tm_ret" => (saveRet[t] <=> ~ioFailed[t]))
    /\ [][\A t \in Threads :
              (pc[t] \in SavePcs /\ StepOf(t)) =>
                  /\ pc'[t] \in SavePcs \cup {"tm_ret"}
                  /\ UNCHANGED <<model, scaler, is_trained>>]_vars

C6_Witness ==
    \E t \in Threads : pc[t] = "tm_ret" /\ ioFailed[t] /\ ~saveRet[t] /\ is_trained

\* C7: when train_model returns, the model is Trained and the files hold the
\* artifact of this training.
C7_TrainPersists ==
    \A t \in Threads : pc[t] = "tm_ret" => (is_trained /\ files = ArtifactOf(tid[t]))

\* C8: when train_model and a save_model that returned True are done, a new
\* instance constructed from the files is Trained, load_model returns True,
\* and it holds the estimator and the scaler of the saving instance, so both
\* predict the same value for every feature tuple; and a new instance whose
\* load_model returned True is Trained and holds what the files hold.
C8_RoundTrip ==
    /\ (pc["main"] = "tm_ret" /\ saveRet["main"]) =>
           LET r == LoadModel(0, 0, FALSE, files)
           IN  /\ r.ret /\ r.is_trained
               /\ r.model = model /\ r.scaler = scaler
               /\ \A a \in Features :
                      PredictValue(r.model, r.scaler, a) = PredictValue(model, scaler, a)
    /\ (pc["main"] = "init_db" /\ loadRet) =>
           /\ is_trained
           /\ files.model_path = Pickle(model)
           /\ files.scaler_path = Pickle(scaler)

C8_Witness ==
    /\ pc["main"] = "init_db" /\ loadRet
    /\ model > 0 /\ files = ArtifactOf(model)

\* C9: a predict call that found the model Trained changes nothing: none of
\* its steps changes the estimator, the scaler, the trained flag or the files;
\* and the integer it returns is the value of its arguments under the
\* estimator and the scaler it read.
C9_PredictFrame ==
    /\ [][\A t \in Threads :
              (args[t] # NoArgs /\ ~sawUntrained[t] /\ StepOf(t)) =>
                  UNCHANGED <<model, scaler, is_trained, files>>]_vars
    /\ [](\A t \in Threads :
              (pc[t] = "p_ret" /\ pret[t].k = "value" /\ ~sawUntrained[t]
               /\ pret[t].model = model /\ pret[t].scaler = scaler) =>
                  pret[t].v = PredictValue(model, scaler, args[t]))

C9_Witness ==
    \E t \in Threads :
        /\ pc[t] = "p_ret" /\ pret[t].k = "value" /\ ~sawUntrained[t]
        /\ pret[t].model = model /\ pret[t].scaler = scaler

AllRows == db \o pending

\* C10: every row, committed or not, has an integer predicted_flow >= 0; a
\* row is inserted only when predict has returned, with the value it returned;
\* and the predicted_flow of a row never changes afterwards.
C10_RowsPredicted ==
    /\ [](\A i \in 1..Len(AllRows) : AllRows[i].predicted_flow \in Nat)
    /\ [][Len(pending') > Len(pending) =>
              /\ pc["collector"] = "p_ret"
              /\ pret["collector"].k = "value"
              /\ Len(pending') = Len(pending) + 1
              /\ pending'[Len(pending')].predicted_flow = pret["collector"].v]_vars
    /\ [][/\ Len(db') >= Len(db)
          /\ \A i \in 1..Len(db) : db'[i] = db[i]
          /\ Len(db') > Len(db) => db' = db \o pending]_vars

C10_Witness == Len(db) > 0 /\ \E i \in 1..Len(db) : db[i].predicted_flow > 0

\* The sensors whose record of tick n is a committed row.
Persisted(n) ==
    {i \in 1..Len(SensorIds) :
        \E j \in 1..Len(db) : db[j].sensor_id = SensorIds[i] /\ db[j].timestamp.n = n}

\* C11: when a tick has failed (predict or the INSERT of one record raised, and
\* data_collection_job caught it), the records of the other sensors of that
\* tick are committed rows: at most the one that failed is missing.
C11_TickIsolation ==
    pc["collector"] = "c_except" =>
        Cardinality(Persisted(tick)) >= Len(SensorIds) - 1

\* The process has ended: its main thread died, or it was killed and started
\* again.
Ended == ~Alive \/ pc["collector"] = "idle"

RowsOf(id, n) == {j \in 1..Len(db) : db[j].sensor_id = id /\ db[j].timestamp.n = n}

\* A sequence of records holds one record per sensor of ids, each id once.
OnePerSensor(data, ids) ==
    /\ Len(data) = Len(ids)
    /\ \A i \in 1..Len(ids) :
           Cardinality({j \in 1..Len(data) : data[j].sensor_id = ids[i]}) = 1

\* C13: a tick samples one reading per sensor, each id once (twelve for the
\* twelve sensors of the simulator); when the delay of a successful tick
\* begins, one row per sampled sensor is committed for that tick and nothing
\* is left uncommitted; and the collector sleeps nowhere but after the commit
\* or in the except block.
C13_TickSamplesAll ==
    /\ [](Len(Sensors) = 12)
    /\ []((pc["collector"] = "c_predict" /\ idx = 1) =>
              /\ OnePerSensor(sensor_data, SensorIds)
              /\ OnePerSensor(GenerateSensorData(AllSensorIds, tick, rnd.hour, rnd.d),
                              AllSensorIds))
    /\ [](pc["collector"] = "c_sleep" =>
              /\ pending = <<>>
              /\ \A i \in 1..Len(SensorIds) :
                     Cardinality(RowsOf(SensorIds[i], tick)) = 1)
    /\ [][slept' # slept =>
              pc["collector"] \in {"c_sleep", "c_except"} \/ pc'["main"] = "boot"]_vars

C13_Witness ==
    /\ pc["collector"] = "c_sleep"
    /\ Cardinality(Persisted(tick)) = Len(SensorIds)

\* The collector is inside a tick: it has sampled and has not yet committed or
\* given up.
InFlight == pc["collector"] \in {"c_predict", "c_commit"} \cup PredictPcs
                \/ tid["collector"] # 0 \/ pending # <<>>

\* C14: the process does not end while a tick is in flight: when it ends, the
\* collector is between ticks, with nothing uncommitted.
C14_CooperativeShutdown ==
    [][(pc["main"] # "boot" /\ pc'["main"] = "boot") => ~InFlight]_vars

\* A step of a read handler of the main thread.
ReadStep ==
    \/ pc["main"] = "serve" /\ pc'["main"] = "r_ret"
    \/ pc["main"] = "r_ret" /\ pc'["main"] = "serve"

C16_TrainOnlyIfLoadFailed ==
    (pc["main"] = "tm_begin" /\ cont["main"] = "serve") => ~loadRet

\* C17: the collector thread runs only when table traffic_data exists, so no
\* INSERT is attempted without it; the table is created by init_db and by
\* nothing else; and init_db is entered once per process, from the import.
C17_SchemaBeforeCollector ==
    /\ [](pc["collector"] # "idle" => hasTable)
    /\ [][hasTable' # hasTable =>
              (pc["main"] = "init_db" /\ pc'["main"] = "startup" /\ hasTable')]_vars
    /\ [][(pc'["main"] = "init_db" /\ pc["main"] # "init_db") => pc["main"] = "boot"]_vars

C17_Witness ==
    /\ pc["collector"] = "p_ret" /\ pret["collector"].k = "value"
    /\ hasTable /\ db = <<>> /\ pending = <<>>

\* The floor of avg_speed for a congestion class, in tenths of km/h.
SpeedFloor(ct) == IF ct = "high" THEN 20 ELSE IF ct = "medium" THEN 50 ELSE 80

\* The count of a reading before the clamp, from the clock and the draws of
\* the call.
RawOf(r) == RawCount(SensorOf(r.sensor_id), rnd.hour, rnd.d)

\* C18: every reading generate_sensor_data returns has vehicle_count >= 0 and
\* avg_speed >= the floor of its sensor's congestion class (2, 5 or 8 km/h).
C18_Floors ==
    \A i \in 1..Len(sensor_data) :
        /\ sensor_data[i].vehicle_count >= 0
        /\ sensor_data[i].avg_speed >= SpeedFloor(sensor_data[i].congestion_type)

C18_Witness ==
    \E i \in 1..Len(sensor_data) :
        /\ sensor_data[i].congestion_type = "low"
        /\ RawOf(sensor_data[i]) > 100
        /\ sensor_data[i].avg_speed = SpeedFloor("low")

\* C19: the congestion_level of every reading is High when its reported
\* vehicle_count is above 80, Medium when it is above 40 and at most 80, and
\* Low otherwise, whatever the class of the sensor.
C19_LabelFromCount ==
    \A i \in 1..Len(sensor_data) :
        LET r == sensor_data[i]
        IN  /\ r.vehicle_count > 80 => r.congestion_level = "High"
            /\ (40 < r.vehicle_count /\ r.vehicle_count <= 80) => r.congestion_level = "Medium"
            /\ r.vehicle_count <= 40 => r.congestion_level = "Low"

C19_Witness ==
    \E i \in 1..Len(sensor_data) :
        /\ RawOf(sensor_data[i]) < 0
        /\ sensor_data[i].vehicle_count = 0
        /\ sensor_data[i].congestion_level = "Low"

\* C20: the vehicle_count of every high-class sensor simulated at hour 9 is
\* greater than its vehicle_count simulated at hour 3, whatever the draws of
\* either.
C20_RushAboveNight ==
    rnd.hour = 9 =>
        \A i \in 1..Len(sensor_data) :
            sensor_data[i].congestion_type = "high" =>
                \A d \in Draws :
                    sensor_data[i].vehicle_count >
                        Reading(SensorOf(sensor_data[i].sensor_id), 0, 3, d).vehicle_count

C20_Witness ==
    /\ rnd.hour = 9 /\ rnd.d.base = 0 /\ rnd.d.jitter = -15
    /\ \E i \in 1..Len(sensor_data) : sensor_data[i].congestion_type = "high"

\* C21: the rows of a tick are committed all or none: for every tick begun so
\* far the table holds one row for each of its readings or no row of it, in
\* every state; and a tick that fails drops the rows it had inserted without
\* changing the table.
C21_TickAllOrNone ==
    /\ [](\A n \in 1..tick :
              \/ \A i \in 1..Len(SensorIds) : RowsOf(SensorIds[i], n) = {}
              \/ \A i \in 1..Len(SensorIds) : Cardinality(RowsOf(SensorIds[i], n)) = 1)
    /\ [][pc'["collector"] = "c_except" /\ pc["collector"] # "c_except"
              => (db' = db /\ pending' = <<>>)]_vars

C21_Witness ==
    /\ pc["collector"] = "p_ret" /\ pret["collector"].k = "error"
    /\ Len(pending) >= 1

\* C22: between two calls of its methods, a predictor that is Trained holds
\* a fitted estimator and a fitted scaler.
C22_TrainedUsable ==
    (pc["main"] \in IdlePcs \cup {"init_db"} /\ is_trained) => (model > 0 /\ scaler > 0)

\* C23: no step of a process takes the predictor from Trained back to
\* Untrained: is_trained goes from True to False only when a new process
\* constructs a new instance.
C23_TrainedAbsorbing ==
    [][(is_trained /\ ~is_trained') => pc'["main"] = "boot"]_vars

C23_Witness ==
    /\ pc["main"] = "ld_ret" /\ ~loadRet
    /\ is_trained
    /\ ~Loads(files.model_path, "pickle")

\* C24: while a predict call of the collector is in progress, its features
\* are the hour and the weekday of the clock store_traffic_data read for that
\* record and the weather code it drew for that record, the hour in 0..23,
\* the weekday in 0..6 and the code in 0..2.
C24_CollectorFeatures ==
    args["collector"] # NoArgs =>
        /\ idx \in 1..Len(sensor_data)
        /\ Len(weather) = idx
        /\ args["collector"] = <<current_time.hour, current_time.weekday, weather[idx]>>
        /\ args["collector"][1] \in 0..23
        /\ args["collector"][2] \in 0..6
        /\ args["collector"][3] \in 0..2

C24_Witness ==
    /\ pc["collector"] = "p_ret" /\ pret["collector"].k = "value"
    /\ idx = 2 /\ Len(weather) = 2
    /\ weather[1] # weather[2]
    /\ args["collector"] = <<23, 6, 2>>
    /\ args["collector"][1] # sensor_data[idx].timestamp.hour

====
